---- MODULE Spec2Model ----
(***************************************************************************)
(* EthernetCellularRK: the Ethernet / cellular arbitration state machine   *)
(* of class EthernetCellular (EthernetCellularRK.h and its implementation). *)
(*                                                                         *)
(* One loop() call runs the handler stateHandler points at.  The clock,    *)
(* the link status of both interfaces and the cloud session status belong  *)
(* to the environment and are not constrained by the commands issued.      *)
(* Time is counted in abstract ticks; the millisecond counter wraps at     *)
(* ClockMod (2^32 in the build).                                           *)
(***************************************************************************)
EXTENDS Integers, Sequences, FiniteSets, TLC

\* ---------------------------------------------------------------- bounds
\* modulus of the millisecond counter returned by millis()
ClockMod == 8
\* largest clock advance between two consecutive loop() calls
MaxTick == 2
\* saturation value of the two history timers (elapsed, inState)
MaxElapsed == 9
\* width in bits of int, the type the getters return (32 in the build)
IntWidth == 20

\* ------------------------------------------------------------- constants
RGB_COLOR_CYAN == 65535
RGB_COLOR_YELLOW == 16776960
DefaultEthernetKeepAlive == 25
DefaultCellularKeepAlive == 1380
\* the default periods and timeouts, in milliseconds
DefaultRetryEthernetPeriod == 300000
DefaultCellularConnectTimeout == 300000
DefaultCellularCloudConnectTimeout == 120000
DefaultEthernetConnectTimeout == 30000
DefaultEthernetCloudConnectTimeout == 30000

\* range of int
IntMin == -(2 ^ (IntWidth - 1))
IntMax == 2 ^ (IntWidth - 1) - 1

\* enum class ActiveInterface
ActiveInterface == {"NONE", "ETHERNET", "CELLULAR"}

\* the ten handlers stateHandler can point at
StateHandlers ==
    {"stateStart", "stateTryEthernet", "stateWaitEthernetReady",
     "stateWaitEthernetCloud", "stateEthernetCloudConnected",
     "stateTryCellular", "stateWaitCellularReady", "stateWaitCellularCloud",
     "stateCellularCloudConnected",
     "stateCellularWaitDisconnectedThenTryEthernet"}

\* status of the cloud session as the two queries report it:
\* Particle.connected() and Particle.disconnected() are never both true
CloudStatus == {"connected", "connecting", "disconnected"}

\* timeout configurations (in ticks) the runs start from
TimeoutConfigs ==
    { [retry |-> 3, cell |-> 3, cellCloud |-> 2, eth |-> 2, ethCloud |-> 2],
      [retry |-> 1, cell |-> 0, cellCloud |-> 3, eth |-> 1, ethCloud |-> 0] }

VARIABLES
    \* ---- members of EthernetCellular
    stateHandler,                \* the handler the next loop() call runs
    ethernetPresent,             \* latched by stateStart
    stateTime,                   \* millis() reading used for timeouts
    activeInterface,
    interfaceChangeCallback,     \* "NULL" or the registered callback
    ethernetKeepAlive,
    cellularKeepAlive,
    retryEthernetPeriod,
    cellularConnectTimeout,
    cellularCloudConnectTimeout,
    ethernetConnectTimeout,
    ethernetCloudConnectTimeout,
    cellularBackupColor,
    \* ---- environment
    millis,                      \* clock reading of the latest loop() call
    ethernetReady,               \* Ethernet.ready()
    cellularReady,               \* CellularOrWiFi.ready()
    cloud,                       \* cloud session status
    featureEthernetDetection,    \* System.featureEnabled(FEATURE_ETHERNET_DETECTION)
    \* ---- effects on the collaborators
    calls,                       \* commands issued by the latest loop() call, in order
    notified,                    \* callback invocations of the latest loop() call
    ethernetCmd,                 \* latest command to Ethernet: none, connect, disconnect
    cellularCmd,                 \* latest command to CellularOrWiFi
    cloudCmd,                    \* latest command to Particle: none, connect, disconnect
    keepAlive,                   \* latest value given to Particle.keepAlive (0: none)
    ledTheme,                    \* <<>> (default theme) or the applied override: the colors of <<CLOUD_CONNECTING, CLOUD_HANDSHAKE, CLOUD_CONNECTED>>
    \* ---- history
    elapsed,                     \* true time since stateTime was assigned (saturating)
    inState,                     \* true time since stateHandler last changed (saturating)
    loops,                       \* whether a loop() call has been made yet
    returned                     \* what the latest call of a member function returned

config == <<ethernetKeepAlive, cellularKeepAlive, retryEthernetPeriod,
            cellularConnectTimeout, cellularCloudConnectTimeout,
            ethernetConnectTimeout, ethernetCloudConnectTimeout,
            cellularBackupColor, interfaceChangeCallback>>

env == <<ethernetReady, cellularReady, cloud>>

vars == <<stateHandler, ethernetPresent, stateTime, activeInterface, config,
          millis, env, featureEthernetDetection, calls, notified, ethernetCmd,
          cellularCmd, cloudCmd, keepAlive, ledTheme, elapsed, inState, loops,
          returned>>

Min(a, b) == IF a < b THEN a ELSE b

\* (mutant) the subtraction is signed: negative once millis() has wrapped
Since_Signed(now) == now - stateTime

\* unsigned subtraction millis() - stateTime
Since(now) == (now - stateTime) % ClockMod

\* last element of the commands in cs that go to the collaborator named by prefix
LastCmd(old, cs, connectOp, disconnectOp) ==
    LET idx == {i \in 1..Len(cs) : cs[i] \in {connectOp, disconnectOp}} IN
    IF idx = {} THEN old
    ELSE LET last == CHOOSE i \in idx : \A j \in idx : j <= i IN
         IF cs[last] = connectOp THEN "connect" ELSE "disconnect"

\* ------------------------------------------------------------------ Init
Init ==
    /\ stateHandler = "stateStart"
    /\ ethernetPresent = FALSE
    /\ stateTime = 0
    /\ activeInterface = "NONE"
    /\ interfaceChangeCallback \in {"NULL", "A"}
    /\ ethernetKeepAlive = DefaultEthernetKeepAlive
    /\ cellularKeepAlive = DefaultCellularKeepAlive
    /\ \E t \in TimeoutConfigs :
         /\ retryEthernetPeriod = t.retry
         /\ cellularConnectTimeout = t.cell
         /\ cellularCloudConnectTimeout = t.cellCloud
         /\ ethernetConnectTimeout = t.eth
         /\ ethernetCloudConnectTimeout = t.ethCloud
    /\ cellularBackupColor \in {RGB_COLOR_YELLOW, RGB_COLOR_CYAN}
    /\ millis = 0
    /\ ethernetReady \in BOOLEAN
    /\ cellularReady \in BOOLEAN
    /\ cloud \in CloudStatus
    /\ featureEthernetDetection \in BOOLEAN
    /\ calls = <<>>
    /\ notified = <<>>
    /\ ethernetCmd = "none"
    /\ cellularCmd = "none"
    /\ cloudCmd = "none"
    /\ keepAlive = 0
    /\ ledTheme = <<>>
    /\ elapsed = 0
    /\ inState = 0
    /\ loops = FALSE
    /\ returned = "none"

\* ------------------------------------------------------- setActiveInterface
\* assigns activeInterface and, on a change, invokes the callback (if any);
\* cs are the commands the handler issued before the call, after those it
\* issues afterwards, ka the keep-alive in force when the callback runs
\* (mutant) the assignment happens only when a callback is registered
setActiveInterface_AssignInsideIf(newActiveInterface, cs, after, ka) ==
    LET changed == activeInterface # newActiveInterface
        invoke == changed /\ interfaceChangeCallback # "NULL" IN
    /\ activeInterface' = IF interfaceChangeCallback # "NULL"
                          THEN newActiveInterface ELSE activeInterface
    /\ notified' = IF invoke
                   THEN << [cb |-> interfaceChangeCallback,
                            oldInterface |-> activeInterface,
                            newInterface |-> newActiveInterface,
                            seenActive |-> newActiveInterface,
                            seenKeepAlive |-> ka] >>
                   ELSE <<>>
    /\ calls' = cs \o (IF invoke THEN <<"callback">> ELSE <<>>) \o after

\* (mutant) the callback is invoked without comparing old and new
setActiveInterface_AlwaysNotify(newActiveInterface, cs, after, ka) ==
    LET invoke == interfaceChangeCallback # "NULL" IN
    /\ activeInterface' = newActiveInterface
    /\ notified' = IF invoke
                   THEN << [cb |-> interfaceChangeCallback,
                            oldInterface |-> activeInterface,
                            newInterface |-> newActiveInterface,
                            seenActive |-> newActiveInterface,
                            seenKeepAlive |-> ka] >>
                   ELSE <<>>
    /\ calls' = cs \o (IF invoke THEN <<"callback">> ELSE <<>>) \o after

setActiveInterface(newActiveInterface, cs, after, ka) ==
    LET changed == activeInterface # newActiveInterface
        invoke == changed /\ interfaceChangeCallback # "NULL" IN
    /\ activeInterface' = newActiveInterface
    /\ notified' = IF invoke
                   THEN << [cb |-> interfaceChangeCallback,
                            oldInterface |-> activeInterface,
                            newInterface |-> newActiveInterface,
                            seenActive |-> newActiveInterface,
                            seenKeepAlive |-> ka] >>
                   ELSE <<>>
    /\ calls' = cs \o (IF invoke THEN <<"callback">> ELSE <<>>) \o after

\* a handler that does not call setActiveInterface and issues commands cs
noActiveInterfaceChange(cs) ==
    /\ UNCHANGED activeInterface
    /\ notified' = <<>>
    /\ calls' = cs

\* ---------------------------------------------------------------- helpers
\* clock advance since the previous loop() call, when this call reads now
Tick(now) == (now - millis) % ClockMod

\* stateTime = millis()
recordStateTime(now) ==
    /\ stateTime' = now
    /\ elapsed' = 0

\* the handler leaves stateTime alone
keepStateTime(now) ==
    /\ UNCHANGED stateTime
    /\ elapsed' = Min(elapsed + Tick(now), MaxElapsed)

\* what the collaborators were last told, after the commands cs
Commands(cs) ==
    /\ ethernetCmd' = LastCmd(ethernetCmd, cs, "Ethernet.connect", "Ethernet.disconnect")
    /\ cellularCmd' = LastCmd(cellularCmd, cs, "Cellular.connect", "Cellular.disconnect")
    /\ cloudCmd' = LastCmd(cloudCmd, cs, "Particle.connect", "Particle.disconnect")

\* the elapsed-time tests of the handlers
\* (mutant) the comparison is strict
EthernetConnectTimedOut_Strict(now) == Since(now) > ethernetConnectTimeout

EthernetConnectTimedOut(now) == Since(now) >= ethernetConnectTimeout
\* (mutant) the comparison is strict
EthernetCloudConnectTimedOut_Strict(now) == Since(now) > ethernetCloudConnectTimeout

EthernetCloudConnectTimedOut(now) == Since(now) >= ethernetCloudConnectTimeout
CellularConnectTimedOut(now) == Since(now) >= cellularConnectTimeout
CellularCloudConnectTimedOut(now) == Since(now) >= cellularCloudConnectTimeout
\* (mutant) the period is compared with the clock, not with the time in the state
RetryEthernetPeriodReached_NoSubtraction(now) == now - stateTime >= retryEthernetPeriod

RetryEthernetPeriodReached(now) == Since(now) >= retryEthernetPeriod

\* the timeout branches that are taken only with an Ethernet adapter present
\* (mutant) the timeout is acted on without an adapter too
CellularConnectGiveUp_AlwaysOnTimeout(now) == CellularConnectTimedOut(now)

\* (mutant) the retry is due without an adapter too
RetryEthernetDue_IgnoresPresence(now) == RetryEthernetPeriodReached(now)

\* (mutant) the cloud timeout is acted on without an adapter too
CellularCloudConnectGiveUp_AlwaysOnTimeout(now) == CellularCloudConnectTimedOut(now)

CellularConnectGiveUp(now) == CellularConnectTimedOut(now) /\ ethernetPresent
CellularCloudConnectGiveUp(now) == CellularCloudConnectTimedOut(now) /\ ethernetPresent
RetryEthernetDue(now) == RetryEthernetPeriodReached(now) /\ ethernetPresent

\* the values handed to Particle.keepAlive
EthernetSessionKeepAlive == ethernetKeepAlive

\* (mutant) the cellular session gets the Ethernet keep-alive
CellularSessionKeepAlive_Ethernet == ethernetKeepAlive

CellularSessionKeepAlive == cellularKeepAlive

\* (mutant) the theme override is applied whatever the color is
CellularBackupTheme_NoSentinel ==
    <<cellularBackupColor, cellularBackupColor, cellularBackupColor>>

\* the LED theme stateTryCellular installs: the three cloud signals in
\* cellularBackupColor, or the default theme for RGB_COLOR_CYAN
CellularBackupTheme ==
    IF cellularBackupColor # RGB_COLOR_CYAN
    THEN <<cellularBackupColor, cellularBackupColor, cellularBackupColor>>
    ELSE <<>>

\* (mutant) stateTryEthernet falls through into the ready test
AfterTryEthernet_FallThrough ==
    IF ethernetReady THEN "stateWaitEthernetCloud" ELSE "stateWaitEthernetReady"

\* the handler stateTryEthernet leaves in stateHandler
AfterTryEthernet == "stateWaitEthernetReady"

\* (mutant) stateTryCellular does not move on
AfterTryCellular_Stay == "stateTryCellular"

\* the handler stateTryCellular leaves in stateHandler
AfterTryCellular == "stateWaitCellularReady"

\* (mutant) the cloud session is left open when giving up on Ethernet
EthernetCloudTimeoutCommands_NoCloudDisconnect == <<"Ethernet.disconnect">>

\* the commands stateWaitEthernetCloud issues when it times out
EthernetCloudTimeoutCommands == <<"Particle.disconnect", "Ethernet.disconnect">>

\* (mutant) stateTryEthernet leaves activeInterface as it is
TryEthernetInterface_Keep == activeInterface

\* the interface stateTryEthernet hands to setActiveInterface
TryEthernetInterface == "NONE"

\* (mutant) the cloud session is left open when giving up on cellular
CellularCloudTimeoutCommands_None == <<>>

\* the command stateWaitCellularCloud issues when it gives up
CellularCloudTimeoutCommands == <<"Particle.disconnect">>

TryEthernetCommands_NoDisconnect == <<"Ethernet.connect">>

\* (mutant) Ethernet is not told to connect
TryEthernetCommands_NoConnect == <<"Cellular.disconnect">>

TryEthernetCommands == <<"Cellular.disconnect", "Ethernet.connect">>
TryCellularCommands == <<"Ethernet.disconnect", "Cellular.connect">>

\* ---------------------------------------------------------------- handlers
\* (mutant) without an adapter the probe is repeated on the next call
stateStart_Reprobe(now, mac) ==
    /\ featureEthernetDetection' = TRUE
    /\ ethernetPresent' = mac
    /\ stateHandler' = IF ethernetPresent' THEN "stateTryEthernet"
                                           ELSE "stateStart"
    /\ noActiveInterfaceChange(IF featureEthernetDetection THEN <<>>
                               ELSE <<"System.enableFeature">>)
    /\ Commands(<<>>)
    /\ keepStateTime(now)
    /\ UNCHANGED <<keepAlive, ledTheme>>

stateStart(now, mac) ==
    /\ featureEthernetDetection' = TRUE
    /\ ethernetPresent' = (mac \/ ethernetPresent)
    /\ stateHandler' = IF ethernetPresent' THEN "stateTryEthernet"
                                           ELSE "stateTryCellular"
    /\ noActiveInterfaceChange(IF featureEthernetDetection THEN <<>>
                               ELSE <<"System.enableFeature">>)
    /\ Commands(<<>>)
    /\ keepStateTime(now)
    /\ UNCHANGED <<keepAlive, ledTheme>>

stateTryEthernet(now) ==
    /\ ledTheme' = <<>>
    /\ setActiveInterface(TryEthernetInterface, <<"LEDSystemTheme.restoreDefault">>,
                          TryEthernetCommands, keepAlive)
    /\ recordStateTime(now)
    /\ Commands(TryEthernetCommands)
    /\ stateHandler' = AfterTryEthernet
    /\ UNCHANGED <<ethernetPresent, featureEthernetDetection, keepAlive>>

\* (mutant) the timeout is tested before the link status
stateWaitEthernetReady_TimeoutFirst(now) ==
    /\ IF EthernetConnectTimedOut(now)
       THEN /\ Commands(<<>>)
            /\ noActiveInterfaceChange(<<>>)
            /\ stateHandler' = "stateTryCellular"
       ELSE IF ethernetReady
       THEN /\ Commands(<<"Particle.connect">>)
            /\ noActiveInterfaceChange(<<"Particle.connect">>)
            /\ stateHandler' = "stateWaitEthernetCloud"
       ELSE /\ Commands(<<>>)
            /\ noActiveInterfaceChange(<<>>)
            /\ UNCHANGED stateHandler
    /\ keepStateTime(now)
    /\ UNCHANGED <<ethernetPresent, featureEthernetDetection, keepAlive, ledTheme>>

stateWaitEthernetReady(now) ==
    /\ IF ethernetReady
       THEN /\ Commands(<<"Particle.connect">>)
            /\ noActiveInterfaceChange(<<"Particle.connect">>)
            /\ stateHandler' = "stateWaitEthernetCloud"
       ELSE /\ Commands(<<>>)
            /\ noActiveInterfaceChange(<<>>)
            /\ stateHandler' = IF EthernetConnectTimedOut(now)
                               THEN "stateTryCellular"
                               ELSE stateHandler
    /\ keepStateTime(now)
    /\ UNCHANGED <<ethernetPresent, featureEthernetDetection, keepAlive, ledTheme>>

stateWaitEthernetCloud(now) ==
    /\ IF cloud = "connected"
       THEN /\ setActiveInterface("ETHERNET", <<>>, <<"Particle.keepAlive">>, keepAlive)
            /\ keepAlive' = EthernetSessionKeepAlive
            /\ Commands(<<>>)
            /\ recordStateTime(now)
            /\ stateHandler' = "stateEthernetCloudConnected"
       ELSE IF EthernetCloudConnectTimedOut(now)
       THEN /\ noActiveInterfaceChange(EthernetCloudTimeoutCommands)
            /\ Commands(EthernetCloudTimeoutCommands)
            /\ keepStateTime(now)
            /\ stateHandler' = "stateTryCellular"
            /\ UNCHANGED keepAlive
       ELSE /\ noActiveInterfaceChange(<<>>)
            /\ Commands(<<>>)
            /\ keepStateTime(now)
            /\ UNCHANGED <<stateHandler, keepAlive>>
    /\ UNCHANGED <<ethernetPresent, featureEthernetDetection, ledTheme>>

\* (mutant) the drop is not time-stamped
stateEthernetCloudConnected_NoStateTime(now) ==
    /\ stateHandler' = IF cloud # "connected" THEN "stateWaitEthernetCloud"
                                               ELSE stateHandler
    /\ keepStateTime(now)
    /\ noActiveInterfaceChange(<<>>)
    /\ Commands(<<>>)
    /\ UNCHANGED <<ethernetPresent, featureEthernetDetection, keepAlive, ledTheme>>

\* (mutant) the state is also left when the Ethernet link is down
stateEthernetCloudConnected_LinkDown(now) ==
    /\ IF cloud # "connected" \/ ~ethernetReady
       THEN /\ stateHandler' = "stateWaitEthernetCloud"
            /\ recordStateTime(now)
       ELSE /\ UNCHANGED stateHandler
            /\ keepStateTime(now)
    /\ noActiveInterfaceChange(<<>>)
    /\ Commands(<<>>)
    /\ UNCHANGED <<ethernetPresent, featureEthernetDetection, keepAlive, ledTheme>>

stateEthernetCloudConnected(now) ==
    /\ IF cloud # "connected"
       THEN /\ stateHandler' = "stateWaitEthernetCloud"
            /\ recordStateTime(now)
       ELSE /\ UNCHANGED stateHandler
            /\ keepStateTime(now)
    /\ noActiveInterfaceChange(<<>>)
    /\ Commands(<<>>)
    /\ UNCHANGED <<ethernetPresent, featureEthernetDetection, keepAlive, ledTheme>>

stateTryCellular(now) ==
    /\ IF cellularBackupColor # RGB_COLOR_CYAN
       THEN /\ ledTheme' = CellularBackupTheme
            /\ setActiveInterface("NONE", <<>>,
                                  <<"LEDSystemTheme.apply">> \o TryCellularCommands,
                                  keepAlive)
       ELSE /\ ledTheme' = CellularBackupTheme
            /\ setActiveInterface("NONE", <<>>,
                                  <<"LEDSystemTheme.restoreDefault">>
                                     \o TryCellularCommands, keepAlive)
    /\ recordStateTime(now)
    /\ Commands(TryCellularCommands)
    /\ stateHandler' = AfterTryCellular
    /\ UNCHANGED <<ethernetPresent, featureEthernetDetection, keepAlive>>

\* (mutant) past the timeout without an adapter the connect is issued again
stateWaitCellularReady_Reconnect(now) ==
    /\ IF cellularReady
       THEN /\ Commands(<<"Particle.connect">>)
            /\ noActiveInterfaceChange(<<"Particle.connect">>)
            /\ stateHandler' = "stateWaitCellularCloud"
       ELSE IF CellularConnectTimedOut(now) /\ ~ethernetPresent
       THEN /\ Commands(<<"Cellular.connect">>)
            /\ noActiveInterfaceChange(<<"Cellular.connect">>)
            /\ UNCHANGED stateHandler
       ELSE /\ Commands(<<>>)
            /\ noActiveInterfaceChange(<<>>)
            /\ stateHandler' = IF CellularConnectGiveUp(now)
                               THEN "stateTryEthernet"
                               ELSE stateHandler
    /\ keepStateTime(now)
    /\ UNCHANGED <<ethernetPresent, featureEthernetDetection, keepAlive, ledTheme>>

stateWaitCellularReady(now) ==
    /\ IF cellularReady
       THEN /\ Commands(<<"Particle.connect">>)
            /\ noActiveInterfaceChange(<<"Particle.connect">>)
            /\ stateHandler' = "stateWaitCellularCloud"
       ELSE /\ Commands(<<>>)
            /\ noActiveInterfaceChange(<<>>)
            /\ stateHandler' = IF CellularConnectGiveUp(now)
                               THEN "stateTryEthernet"
                               ELSE stateHandler
    /\ keepStateTime(now)
    /\ UNCHANGED <<ethernetPresent, featureEthernetDetection, keepAlive, ledTheme>>

\* (mutant) the confirmation is not time-stamped
stateWaitCellularCloud_NoStateTime(now) ==
    /\ IF cloud = "connected"
       THEN /\ keepAlive' = CellularSessionKeepAlive
            /\ setActiveInterface("CELLULAR", <<"Particle.keepAlive">>, <<>>,
                                  CellularSessionKeepAlive)
            /\ Commands(<<>>)
            /\ keepStateTime(now)
            /\ stateHandler' = "stateCellularCloudConnected"
       ELSE IF CellularCloudConnectGiveUp(now)
       THEN /\ noActiveInterfaceChange(CellularCloudTimeoutCommands)
            /\ Commands(CellularCloudTimeoutCommands)
            /\ keepStateTime(now)
            /\ stateHandler' = "stateTryEthernet"
            /\ UNCHANGED keepAlive
       ELSE /\ noActiveInterfaceChange(<<>>)
            /\ Commands(<<>>)
            /\ keepStateTime(now)
            /\ UNCHANGED <<stateHandler, keepAlive>>
    /\ UNCHANGED <<ethernetPresent, featureEthernetDetection, ledTheme>>

stateWaitCellularCloud(now) ==
    /\ IF cloud = "connected"
       THEN /\ keepAlive' = CellularSessionKeepAlive
            /\ setActiveInterface("CELLULAR", <<"Particle.keepAlive">>, <<>>,
                                  CellularSessionKeepAlive)
            /\ Commands(<<>>)
            /\ recordStateTime(now)
            /\ stateHandler' = "stateCellularCloudConnected"
       ELSE IF CellularCloudConnectGiveUp(now)
       THEN /\ noActiveInterfaceChange(CellularCloudTimeoutCommands)
            /\ Commands(CellularCloudTimeoutCommands)
            /\ keepStateTime(now)
            /\ stateHandler' = "stateTryEthernet"
            /\ UNCHANGED keepAlive
       ELSE /\ noActiveInterfaceChange(<<>>)
            /\ Commands(<<>>)
            /\ keepStateTime(now)
            /\ UNCHANGED <<stateHandler, keepAlive>>
    /\ UNCHANGED <<ethernetPresent, featureEthernetDetection, ledTheme>>

stateCellularCloudConnected(now) ==
    /\ IF cloud # "connected"
       THEN /\ stateHandler' = "stateWaitCellularCloud"
            /\ recordStateTime(now)
            /\ noActiveInterfaceChange(<<>>)
            /\ Commands(<<>>)
       ELSE IF RetryEthernetDue(now)
       THEN /\ setActiveInterface("NONE", <<"Particle.disconnect">>, <<>>, keepAlive)
            /\ Commands(<<"Particle.disconnect">>)
            /\ keepStateTime(now)
            /\ stateHandler' = "stateCellularWaitDisconnectedThenTryEthernet"
       ELSE /\ noActiveInterfaceChange(<<>>)
            /\ Commands(<<>>)
            /\ keepStateTime(now)
            /\ UNCHANGED stateHandler
    /\ UNCHANGED <<ethernetPresent, featureEthernetDetection, keepAlive, ledTheme>>

\* (mutant) does not wait for the session to report disconnected
stateCellularWaitDisconnectedThenTryEthernet_NoWait(now) ==
    /\ stateHandler' = "stateTryEthernet"
    /\ noActiveInterfaceChange(<<>>)
    /\ Commands(<<>>)
    /\ keepStateTime(now)
    /\ UNCHANGED <<ethernetPresent, featureEthernetDetection, keepAlive, ledTheme>>

stateCellularWaitDisconnectedThenTryEthernet(now) ==
    /\ stateHandler' = IF cloud = "disconnected" THEN "stateTryEthernet"
                                                 ELSE stateHandler
    /\ noActiveInterfaceChange(<<>>)
    /\ Commands(<<>>)
    /\ keepStateTime(now)
    /\ UNCHANGED <<ethernetPresent, featureEthernetDetection, keepAlive, ledTheme>>

\* -------------------------------------------------------------------- loop
\* one loop() call: millis() has advanced by d since the previous call
\* one call of loop(), made d clock ticks after the previous one
loopAt(d) ==
      LET now == (millis + d) % ClockMod IN
      /\ \/ stateHandler = "stateStart" /\ \E mac \in BOOLEAN : stateStart(now, mac)
         \/ stateHandler = "stateTryEthernet" /\ stateTryEthernet(now)
         \/ stateHandler = "stateWaitEthernetReady" /\ stateWaitEthernetReady(now)
         \/ stateHandler = "stateWaitEthernetCloud" /\ stateWaitEthernetCloud(now)
         \/ stateHandler = "stateEthernetCloudConnected"
              /\ stateEthernetCloudConnected(now)
         \/ stateHandler = "stateTryCellular" /\ stateTryCellular(now)
         \/ stateHandler = "stateWaitCellularReady" /\ stateWaitCellularReady(now)
         \/ stateHandler = "stateWaitCellularCloud" /\ stateWaitCellularCloud(now)
         \/ stateHandler = "stateCellularCloudConnected"
              /\ stateCellularCloudConnected(now)
         \/ stateHandler = "stateCellularWaitDisconnectedThenTryEthernet"
              /\ stateCellularWaitDisconnectedThenTryEthernet(now)
      /\ millis' = now
      /\ inState' = IF stateHandler' # stateHandler THEN 0
                    ELSE Min(inState + d, MaxElapsed)
      /\ loops' = TRUE
      /\ returned' = "void"
      /\ UNCHANGED <<config, env>>

loop == \E d \in 0..MaxTick : loopAt(d)

\* ------------------------------------------------------------- environment
controller == <<stateHandler, ethernetPresent, stateTime, activeInterface, config,
                millis, featureEthernetDetection, calls, notified, ethernetCmd,
                cellularCmd, cloudCmd, keepAlive, ledTheme, elapsed, inState, loops,
                returned>>

\* the Ethernet link comes up or goes down
EthernetLinkChange ==
    /\ ethernetReady' = ~ethernetReady
    /\ UNCHANGED <<cellularReady, cloud, controller>>

\* the cellular link comes up or goes down
CellularLinkChange ==
    /\ cellularReady' = ~cellularReady
    /\ UNCHANGED <<ethernetReady, cloud, controller>>

\* the cloud session changes status
CloudChange ==
    /\ cloud' \in CloudStatus \ {cloud}
    /\ UNCHANGED <<ethernetReady, cellularReady, controller>>

Next == loop \/ EthernetLinkChange \/ CellularLinkChange \/ CloudChange

Spec == Init /\ [][Next]_vars

\* loop() keeps being called and the clock keeps advancing
ClockAdvances == loop /\ millis' # millis

\* the runs of the liveness checks: default backup color, no callback
LiveInit ==
    /\ Init
    /\ interfaceChangeCallback = "NULL"
    /\ cellularBackupColor = RGB_COLOR_YELLOW
    /\ featureEthernetDetection

LiveSpec == LiveInit /\ [][Next]_vars /\ WF_vars(ClockAdvances)

\* ------------------------------------------------- configuration interface
\* the members the setters never assign
machine == <<stateHandler, ethernetPresent, stateTime, activeInterface, millis,
             featureEthernetDetection, calls, notified, ethernetCmd, cellularCmd,
             cloudCmd, keepAlive, ledTheme, elapsed, inState, loops>>

\* (mutant) the cast keeps one bit less
ToInt_Narrow(v) == ((v + 2 ^ (IntWidth - 2)) % 2 ^ (IntWidth - 1)) - 2 ^ (IntWidth - 2)

\* the cast (int) of a duration's count(), which is wider than int
ToInt(v) == ((v + 2 ^ (IntWidth - 1)) % 2 ^ IntWidth) - 2 ^ (IntWidth - 1)

getEthernetKeepAlive == ToInt(ethernetKeepAlive)

\* (mutant) the getter reports minutes, the unit of the initializer
getCellularKeepAlive_Minutes == ToInt(cellularKeepAlive) \div 60

getCellularKeepAlive == ToInt(cellularKeepAlive)
getRetryEthernetPeriod == ToInt(retryEthernetPeriod)
getCellularConnectTimeout == ToInt(cellularConnectTimeout)
getCellularCloudConnectTimeout == ToInt(cellularCloudConnectTimeout)
getEthernetConnectTimeout == ToInt(ethernetConnectTimeout)
getEthernetCloudConnectTimeout == ToInt(ethernetCloudConnectTimeout)
getCellularBackupColor == cellularBackupColor
getActiveInterface == activeInterface

withEthernetKeepAlive(value) ==
    /\ ethernetKeepAlive' = value
    /\ returned' = "*this"
    /\ UNCHANGED <<cellularKeepAlive, retryEthernetPeriod,
                 cellularConnectTimeout, cellularCloudConnectTimeout,
                 ethernetConnectTimeout, ethernetCloudConnectTimeout,
                 cellularBackupColor, interfaceChangeCallback, machine, env>>

withCellularKeepAlive(value) ==
    /\ cellularKeepAlive' = value
    /\ returned' = "*this"
    /\ UNCHANGED <<ethernetKeepAlive, retryEthernetPeriod,
                 cellularConnectTimeout, cellularCloudConnectTimeout,
                 ethernetConnectTimeout, ethernetCloudConnectTimeout,
                 cellularBackupColor, interfaceChangeCallback, machine, env>>

withRetryEthernetPeriod(value) ==
    /\ retryEthernetPeriod' = value
    /\ returned' = "*this"
    /\ UNCHANGED <<ethernetKeepAlive, cellularKeepAlive,
                 cellularConnectTimeout, cellularCloudConnectTimeout,
                 ethernetConnectTimeout, ethernetCloudConnectTimeout,
                 cellularBackupColor, interfaceChangeCallback, machine, env>>

withCellularConnectTimeout(value) ==
    /\ cellularConnectTimeout' = value
    /\ returned' = "*this"
    /\ UNCHANGED <<ethernetKeepAlive, cellularKeepAlive, retryEthernetPeriod,
                 cellularCloudConnectTimeout, ethernetConnectTimeout,
                 ethernetCloudConnectTimeout, cellularBackupColor,
                 interfaceChangeCallback, machine, env>>

withCellularCloudConnectTimeout(value) ==
    /\ cellularCloudConnectTimeout' = value
    /\ returned' = "*this"
    /\ UNCHANGED <<ethernetKeepAlive, cellularKeepAlive, retryEthernetPeriod,
                 cellularConnectTimeout, ethernetConnectTimeout,
                 ethernetCloudConnectTimeout, cellularBackupColor,
                 interfaceChangeCallback, machine, env>>

withEthernetConnectTimeout(value) ==
    /\ ethernetConnectTimeout' = value
    /\ returned' = "*this"
    /\ UNCHANGED <<ethernetKeepAlive, cellularKeepAlive, retryEthernetPeriod,
                 cellularConnectTimeout, cellularCloudConnectTimeout,
                 ethernetCloudConnectTimeout, cellularBackupColor,
                 interfaceChangeCallback, machine, env>>

withEthernetCloudConnectTimeout(value) ==
    /\ ethernetCloudConnectTimeout' = value
    /\ returned' = "*this"
    /\ UNCHANGED <<ethernetKeepAlive, cellularKeepAlive, retryEthernetPeriod,
                 cellularConnectTimeout, cellularCloudConnectTimeout,
                 ethernetConnectTimeout, cellularBackupColor,
                 interfaceChangeCallback, machine, env>>

withCellularBackupColor(value) ==
    /\ cellularBackupColor' = value
    /\ returned' = "*this"
    /\ UNCHANGED <<ethernetKeepAlive, cellularKeepAlive, retryEthernetPeriod,
                 cellularConnectTimeout, cellularCloudConnectTimeout,
                 ethernetConnectTimeout, ethernetCloudConnectTimeout,
                 interfaceChangeCallback, machine, env>>

\* (mutant) a registered callback is not replaced
withInterfaceChangeCallback_KeepFirst(callback) ==
    /\ interfaceChangeCallback' = IF interfaceChangeCallback = "NULL" THEN callback ELSE interfaceChangeCallback
    /\ returned' = "*this"
    /\ UNCHANGED <<ethernetKeepAlive, cellularKeepAlive, retryEthernetPeriod,
                 cellularConnectTimeout, cellularCloudConnectTimeout,
                 ethernetConnectTimeout, ethernetCloudConnectTimeout,
                 cellularBackupColor, machine, env>>

withInterfaceChangeCallback(callback) ==
    /\ interfaceChangeCallback' = callback
    /\ returned' = "*this"
    /\ UNCHANGED <<ethernetKeepAlive, cellularKeepAlive, retryEthernetPeriod,
                 cellularConnectTimeout, cellularCloudConnectTimeout,
                 ethernetConnectTimeout, ethernetCloudConnectTimeout,
                 cellularBackupColor, machine, env>>

\* the arguments the setters are called with
EthernetKeepAliveArgs == {DefaultEthernetKeepAlive, IntMax, IntMax + 1}
CellularKeepAliveArgs == {DefaultCellularKeepAlive, IntMin}
RetryEthernetPeriodArgs == {DefaultRetryEthernetPeriod, 0}
CellularConnectTimeoutArgs == {DefaultCellularConnectTimeout, -1}
CellularCloudConnectTimeoutArgs == {DefaultCellularCloudConnectTimeout, 0}
EthernetConnectTimeoutArgs == {DefaultEthernetConnectTimeout, 0}
EthernetCloudConnectTimeoutArgs == {DefaultEthernetCloudConnectTimeout, 0}
CellularBackupColorArgs == {RGB_COLOR_YELLOW, RGB_COLOR_CYAN}
InterfaceChangeCallbackArgs == {"NULL", "A", "B"}

\* the object as constructed
ConfigInit ==
    /\ stateHandler = "stateStart"
    /\ ethernetPresent = FALSE
    /\ stateTime = 0
    /\ activeInterface = "NONE"
    /\ interfaceChangeCallback = "NULL"
    /\ ethernetKeepAlive = DefaultEthernetKeepAlive
    /\ cellularKeepAlive = DefaultCellularKeepAlive
    /\ retryEthernetPeriod = DefaultRetryEthernetPeriod
    /\ cellularConnectTimeout = DefaultCellularConnectTimeout
    /\ cellularCloudConnectTimeout = DefaultCellularCloudConnectTimeout
    /\ ethernetConnectTimeout = DefaultEthernetConnectTimeout
    /\ ethernetCloudConnectTimeout = DefaultEthernetCloudConnectTimeout
    /\ cellularBackupColor = RGB_COLOR_YELLOW
    /\ millis = 0
    /\ ethernetReady \in BOOLEAN
    /\ cellularReady \in BOOLEAN
    /\ cloud \in CloudStatus
    /\ featureEthernetDetection = TRUE
    /\ calls = <<>>
    /\ notified = <<>>
    /\ ethernetCmd = "none"
    /\ cellularCmd = "none"
    /\ cloudCmd = "none"
    /\ keepAlive = 0
    /\ ledTheme = <<>>
    /\ elapsed = 0
    /\ inState = 0
    /\ loops = FALSE
    /\ returned = "none"

\* setter calls interleaved with loop() calls made within one clock tick,
\* while the links and the cloud session stay as they are
ConfigNext ==
    \/ loopAt(0)
    \/ \E value \in EthernetKeepAliveArgs : withEthernetKeepAlive(value)
    \/ \E value \in CellularKeepAliveArgs : withCellularKeepAlive(value)
    \/ \E value \in RetryEthernetPeriodArgs : withRetryEthernetPeriod(value)
    \/ \E value \in CellularConnectTimeoutArgs : withCellularConnectTimeout(value)
    \/ \E value \in CellularCloudConnectTimeoutArgs :
         withCellularCloudConnectTimeout(value)
    \/ \E value \in EthernetConnectTimeoutArgs : withEthernetConnectTimeout(value)
    \/ \E value \in EthernetCloudConnectTimeoutArgs :
         withEthernetCloudConnectTimeout(value)
    \/ \E value \in CellularBackupColorArgs : withCellularBackupColor(value)

ConfigSpec == ConfigInit /\ [][ConfigNext]_vars

\* (mutant) setup() starts the cloud connection
setup_Connects ==
    /\ returned' = "void"
    /\ calls' = <<"Particle.connect">>
    /\ cloudCmd' = "connect"
    /\ UNCHANGED <<stateHandler, ethernetPresent, stateTime, activeInterface, millis,
                   featureEthernetDetection, notified, ethernetCmd, cellularCmd,
                   keepAlive, ledTheme, elapsed, inState, loops, config, env>>

\* setup(): the body is empty
setup ==
    /\ returned' = "void"
    /\ UNCHANGED <<machine, config, env>>

\* the application calls setup() as often and whenever it likes
SetupNext ==
    \/ setup
    \/ loop
    \/ EthernetLinkChange
    \/ CellularLinkChange
    \/ CloudChange

SetupSpec == LiveInit /\ [][SetupNext]_vars

\* the application registers, replaces or removes the callback at any time
CallbackNext ==
    \/ loop
    \/ EthernetLinkChange
    \/ CellularLinkChange
    \/ CloudChange
    \/ \E callback \in InterfaceChangeCallbackArgs :
         withInterfaceChangeCallback(callback)

CallbackSpec == LiveInit /\ [][CallbackNext]_vars

\* ------------------------------------------------------------------ claims
\* a step of [Next]_vars that changes vars and leaves the environment alone
\* is a loop() call
LoopStep == env' = env

\* true time since stateTime was assigned / since the state was entered, as
\* of the clock reading of the loop() call being made
NowElapsed == Min(elapsed + ((millis' - millis) % ClockMod), MaxElapsed)
NowInState == Min(inState + ((millis' - millis) % ClockMod), MaxElapsed)

\* C1 (as stated): activeInterface is NONE in Start, both Try states, both
\* Wait...Ready states, both Wait...Cloud states and the wait-disconnected
\* state; it is ETHERNET only in stateEthernetCloudConnected and CELLULAR only
\* in stateCellularCloudConnected.
C1_Original ==
    /\ stateHandler \in {"stateStart", "stateTryEthernet", "stateTryCellular",
                         "stateWaitEthernetReady", "stateWaitCellularReady",
                         "stateWaitEthernetCloud", "stateWaitCellularCloud",
                         "stateCellularWaitDisconnectedThenTryEthernet"}
         => activeInterface = "NONE"
    /\ activeInterface = "ETHERNET" => stateHandler = "stateEthernetCloudConnected"
    /\ activeInterface = "CELLULAR" => stateHandler = "stateCellularCloudConnected"

\* C1 (amended): activeInterface is NONE in Start, the Wait...Ready states
\* and the wait-disconnected state; it is ETHERNET in
\* stateEthernetCloudConnected and CELLULAR in stateCellularCloudConnected;
\* after a cloud drop it keeps its value, so it is NONE or ETHERNET in
\* stateWaitEthernetCloud and in stateTryCellular before that handler runs,
\* and NONE or CELLULAR in stateWaitCellularCloud and in stateTryEthernet
\* before that handler runs.
C1_ActiveInterfaceByState ==
    /\ stateHandler \in {"stateStart", "stateWaitEthernetReady",
                         "stateWaitCellularReady",
                         "stateCellularWaitDisconnectedThenTryEthernet"}
         => activeInterface = "NONE"
    /\ stateHandler = "stateEthernetCloudConnected" => activeInterface = "ETHERNET"
    /\ stateHandler = "stateCellularCloudConnected" => activeInterface = "CELLULAR"
    /\ stateHandler \in {"stateWaitEthernetCloud", "stateTryCellular"}
         => activeInterface \in {"NONE", "ETHERNET"}
    /\ stateHandler \in {"stateWaitCellularCloud", "stateTryEthernet"}
         => activeInterface \in {"NONE", "CELLULAR"}

\* the cloud dropped on Ethernet: waiting for it again, still ETHERNET
C1_Witness ==
    /\ stateHandler = "stateWaitEthernetCloud"
    /\ activeInterface = "ETHERNET"
    /\ inState > 0

\* C2: fallback on loss of cloud reachability over Ethernet.  A loop() call in
\* stateEthernetCloudConnected that sees the session not connected records
\* the time and moves to stateWaitEthernetCloud; from then on, while the
\* session stays not connected (whatever Ethernet.ready() says), a call made
\* before ethernetCloudConnectTimeout has passed since the detection stays,
\* and the first call made at or after it issues Particle.disconnect and
\* Ethernet.disconnect and moves to stateTryCellular; the call after that
\* issues Cellular.connect.
C2_FallbackOnCloudLoss ==
    [][ LoopStep =>
        /\ (stateHandler = "stateEthernetCloudConnected" /\ cloud # "connected")
             => /\ stateHandler' = "stateWaitEthernetCloud"
                /\ stateTime' = millis'
                /\ elapsed' = 0 /\ inState' = 0
                /\ calls' = <<>>
        /\ (stateHandler = "stateWaitEthernetCloud" /\ cloud # "connected"
              /\ activeInterface = "ETHERNET")
             => /\ elapsed = inState
                /\ IF NowInState >= ethernetCloudConnectTimeout
                   THEN /\ stateHandler' = "stateTryCellular"
                        /\ calls' = <<"Particle.disconnect", "Ethernet.disconnect">>
                        /\ cloudCmd' = "disconnect"
                        /\ ethernetCmd' = "disconnect"
                   ELSE /\ stateHandler' = "stateWaitEthernetCloud"
                        /\ calls' = <<>>
        /\ stateHandler = "stateTryCellular"
             => /\ calls'[Len(calls')] = "Cellular.connect"
                /\ cellularCmd' = "connect"
                /\ stateHandler' = "stateWaitCellularReady"
      ]_vars

\* the timeout after a cloud loss has just fired with the Ethernet link still ready
C2_Witness ==
    /\ stateHandler = "stateTryCellular"
    /\ activeInterface = "ETHERNET"
    /\ ethernetReady
    /\ calls = <<"Particle.disconnect", "Ethernet.disconnect">>

\* C3: scenario C.  With an adapter present, a loop() call in
\* stateCellularCloudConnected that sees the session connected at least
\* retryEthernetPeriod after the state was entered issues Particle.disconnect
\* (and nothing to either interface), sets activeInterface to NONE and moves
\* to stateCellularWaitDisconnectedThenTryEthernet; there every call issues
\* nothing and stays until one sees the session disconnected, which moves to
\* stateTryEthernet.
C3_RetryEthernetScenario ==
    [][ LoopStep =>
        /\ (stateHandler = "stateCellularCloudConnected" /\ cloud = "connected"
              /\ ethernetPresent /\ NowInState >= retryEthernetPeriod)
             => /\ stateHandler' = "stateCellularWaitDisconnectedThenTryEthernet"
                /\ activeInterface' = "NONE"
                /\ calls' \in {<<"Particle.disconnect">>,
                               <<"Particle.disconnect", "callback">>}
                /\ cloudCmd' = "disconnect"
                /\ UNCHANGED <<ethernetCmd, cellularCmd>>
        /\ stateHandler = "stateCellularWaitDisconnectedThenTryEthernet"
             => /\ calls' = <<>>
                /\ UNCHANGED <<ethernetCmd, cellularCmd, cloudCmd, activeInterface>>
                /\ stateHandler' = IF cloud = "disconnected"
                                   THEN "stateTryEthernet"
                                   ELSE "stateCellularWaitDisconnectedThenTryEthernet"
      ]_vars

\* the retry period has fired and the controller has then waited, the session
\* not yet reporting disconnected
C3_Witness ==
    /\ stateHandler = "stateCellularWaitDisconnectedThenTryEthernet"
    /\ inState > 0
    /\ cloud = "connecting"
    /\ cloudCmd = "disconnect"
    /\ cellularCmd = "connect"

CellularSide ==
    {"stateTryCellular", "stateWaitCellularReady", "stateWaitCellularCloud",
     "stateCellularCloudConnected", "stateCellularWaitDisconnectedThenTryEthernet"}

CloudDropOnCellular ==
    /\ stateHandler = "stateCellularCloudConnected"
    /\ stateHandler' = "stateWaitCellularCloud"

Precedes(cs, a, b) ==
    \A j \in 1..Len(cs) : cs[j] = b => \E i \in 1..(j - 1) : cs[i] = a

\* C5: the two interfaces are never both commanded connected; a loop() call
\* that issues Ethernet.connect has issued Cellular.disconnect before it, and
\* one that issues Cellular.connect has issued Ethernet.disconnect before it.
C5_MutualExclusion ==
    /\ ~(ethernetCmd = "connect" /\ cellularCmd = "connect")
    /\ Precedes(calls, "Cellular.disconnect", "Ethernet.connect")
    /\ Precedes(calls, "Ethernet.disconnect", "Cellular.connect")

\* Ethernet has just been connected after a stay on cellular
C5_Witness ==
    /\ \E i \in 1..Len(calls) : calls[i] = "Ethernet.connect"
    /\ ethernetCmd = "connect"
    /\ cellularCmd = "disconnect"
    /\ keepAlive = cellularKeepAlive

\* C6: when stateStart found no adapter, no loop() call ever enters
\* stateTryEthernet (nor any Ethernet state), a call in stateWaitCellularReady
\* with the link not ready stays there and a call in stateWaitCellularCloud
\* with the session not connected stays there, whatever time has passed.
C6_NoAdapterNoTimeout ==
    [][ (loops /\ ~ethernetPresent /\ LoopStep) =>
        /\ stateHandler' \in CellularSide
        /\ stateHandler' # "stateCellularWaitDisconnectedThenTryEthernet"
        /\ ~ethernetPresent'
        /\ (stateHandler = "stateWaitCellularReady" /\ ~cellularReady)
             => stateHandler' = "stateWaitCellularReady"
        /\ (stateHandler = "stateWaitCellularCloud" /\ cloud # "connected")
             => stateHandler' = "stateWaitCellularCloud"
      ]_vars

\* no adapter, still waiting for the cellular link long after every timeout
C6_Witness ==
    /\ ~ethernetPresent
    /\ stateHandler = "stateWaitCellularReady"
    /\ inState = MaxElapsed
    /\ elapsed = MaxElapsed

\* C7: with a callback registered, a loop() call that changes activeInterface
\* invokes it exactly once, inside that call, with (value before, value
\* after) and with activeInterface already holding the new value; a call that
\* leaves activeInterface unchanged invokes nothing; with no callback nothing
\* is invoked.
C7_CallbackOncePerChange ==
    [][ LoopStep =>
        IF activeInterface' # activeInterface /\ interfaceChangeCallback # "NULL"
        THEN /\ Len(notified') = 1
             /\ notified'[1].cb = interfaceChangeCallback
             /\ notified'[1].oldInterface = activeInterface
             /\ notified'[1].newInterface = activeInterface'
             /\ notified'[1].seenActive = activeInterface'
             /\ Cardinality({i \in 1..Len(calls') : calls'[i] = "callback"}) = 1
        ELSE /\ notified' = <<>>
             /\ \A i \in 1..Len(calls') : calls'[i] # "callback"
      ]_vars

\* the callback has just been told of the switch to Ethernet
C7_Witness ==
    /\ Len(notified) = 1
    /\ notified[1].oldInterface = "NONE"
    /\ notified[1].newInterface = "ETHERNET"
    /\ activeInterface = "ETHERNET"

\* C8 (as stated): with an adapter present, stateWaitCellularCloud gives up
\* (moves to stateTryEthernet) only when at least
\* cellularCloudConnectTimeout has passed since the link was seen ready,
\* that is since stateWaitCellularCloud was entered.
C8_Original ==
    [][ (LoopStep /\ stateHandler = "stateWaitCellularCloud"
           /\ stateHandler' = "stateTryEthernet")
        => NowInState >= cellularCloudConnectTimeout ]_vars

\* C9 (as stated): scenario A.  From stateWaitEthernetCloud, entered when the
\* link was seen ready, a loop() call that sees the session connected moves
\* to stateEthernetCloudConnected with activeInterface ETHERNET, and a call
\* made less than ethernetCloudConnectTimeout after the link was seen ready
\* does not give up (the controller does not pass through stateTryCellular).
C9_Original ==
    [][ (LoopStep /\ stateHandler = "stateWaitEthernetCloud") =>
        /\ cloud = "connected"
             => /\ stateHandler' = "stateEthernetCloudConnected"
                /\ activeInterface' = "ETHERNET"
        /\ (cloud # "connected" /\ NowInState < ethernetCloudConnectTimeout)
             => stateHandler' = "stateWaitEthernetCloud"
      ]_vars

\* C10: scenario B.  With the Ethernet link not ready, a loop() call in
\* stateWaitEthernetReady stays there while less than ethernetConnectTimeout
\* has passed since stateTryEthernet recorded the time and moves to
\* stateTryCellular on the first call at or after it; neither stateTryEthernet
\* nor these calls issue Particle.connect.
C10_EthernetNeverReady ==
    [][ LoopStep =>
        /\ (stateHandler = "stateWaitEthernetReady" /\ ~ethernetReady)
             => /\ stateHandler' = IF NowElapsed >= ethernetConnectTimeout
                                   THEN "stateTryCellular"
                                   ELSE "stateWaitEthernetReady"
                /\ calls' = <<>>
                /\ UNCHANGED cloudCmd
        /\ stateHandler = "stateTryEthernet"
             => /\ stateHandler' = "stateWaitEthernetReady"
                /\ stateTime' = millis' /\ elapsed' = 0
                /\ \A i \in 1..Len(calls') : calls'[i] # "Particle.connect"
                /\ UNCHANGED cloudCmd
      ]_vars

\* the Ethernet link never came up: the timeout has moved on to cellular
\* without a cloud command
C10_Witness ==
    /\ stateHandler = "stateTryCellular"
    /\ ethernetCmd = "connect"
    /\ cloudCmd = "none"
    /\ calls = <<>>
    /\ ~ethernetReady

\* C11: scenario E.  A loop() call in stateEthernetCloudConnected that sees
\* the session not connected moves to stateWaitEthernetCloud with stateTime
\* set to the clock reading of that call and issues no command (Ethernet
\* stays connected, cellular untouched); a later call in
\* stateWaitEthernetCloud that sees the session connected, made before
\* ethernetCloudConnectTimeout has passed since the detection, returns to
\* stateEthernetCloudConnected.
C11_CloudDropOnEthernet ==
    [][ LoopStep =>
        /\ (stateHandler = "stateEthernetCloudConnected" /\ cloud # "connected")
             => /\ stateHandler' = "stateWaitEthernetCloud"
                /\ stateTime' = millis'
                /\ elapsed' = 0
                /\ calls' = <<>>
                /\ ethernetCmd' = "connect" /\ cellularCmd' = "disconnect"
                /\ UNCHANGED <<ethernetCmd, cellularCmd, cloudCmd, activeInterface>>
        /\ (stateHandler = "stateWaitEthernetCloud" /\ activeInterface = "ETHERNET")
             => /\ Since(millis') = NowInState
                /\ (cloud = "connected"
                      => /\ stateHandler' = "stateEthernetCloudConnected"
                         /\ UNCHANGED <<ethernetCmd, cellularCmd, cloudCmd>>)
                /\ (cloud # "connected" /\ NowInState < ethernetCloudConnectTimeout
                      => stateHandler' = "stateWaitEthernetCloud")
      ]_vars

\* back in stateEthernetCloudConnected after a drop: the keep-alive was
\* applied again and the registered callback had nothing to be told
C11_Witness ==
    /\ stateHandler = "stateEthernetCloudConnected"
    /\ interfaceChangeCallback # "NULL"
    /\ calls = <<"Particle.keepAlive">>
    /\ notified = <<>>

\* C12: a live cellular session is not interrupted early.  A loop() call in
\* stateCellularCloudConnected issues Particle.disconnect (and moves to
\* stateCellularWaitDisconnectedThenTryEthernet) only with an adapter present
\* and at least retryEthernetPeriod after the state was entered; with the
\* session connected and less time passed it stays and issues nothing.
C12_NoEarlyInterrupt ==
    [][ (LoopStep /\ stateHandler = "stateCellularCloudConnected") =>
        /\ (\E i \in 1..Len(calls') : calls'[i] = "Particle.disconnect")
             => (ethernetPresent /\ NowInState >= retryEthernetPeriod)
        /\ stateHandler' = "stateCellularWaitDisconnectedThenTryEthernet"
             => (ethernetPresent /\ NowInState >= retryEthernetPeriod
                   /\ cloud = "connected")
        /\ (cloud = "connected"
              /\ ~(ethernetPresent /\ NowInState >= retryEthernetPeriod))
             => /\ stateHandler' = "stateCellularCloudConnected"
                /\ calls' = <<>>
                /\ UNCHANGED <<cloudCmd, activeInterface>>
      ]_vars

\* on cellular with an adapter present, the retry period not yet reached
C12_Witness ==
    /\ stateHandler = "stateCellularCloudConnected"
    /\ ethernetPresent
    /\ cloud = "connected"
    /\ inState > 0
    /\ inState < retryEthernetPeriod

\* C13: the elapsed-time tests are wraparound-safe.  Whatever stateTime is
\* (also next to the largest clock value, with millis() wrapped past 0), as
\* long as the true time since stateTime was recorded is below the clock
\* modulus, millis() - stateTime equals it, and each of the five timeout
\* tests is true exactly when the true elapsed time has reached the
\* configured value.
C13_WraparoundSafe ==
    [][ (LoopStep /\ NowElapsed < ClockMod) =>
        /\ Since(millis') = NowElapsed
        /\ EthernetConnectTimedOut(millis') = (NowElapsed >= ethernetConnectTimeout)
        /\ EthernetCloudConnectTimedOut(millis')
             = (NowElapsed >= ethernetCloudConnectTimeout)
        /\ CellularConnectTimedOut(millis') = (NowElapsed >= cellularConnectTimeout)
        /\ CellularCloudConnectTimedOut(millis')
             = (NowElapsed >= cellularCloudConnectTimeout)
        /\ RetryEthernetPeriodReached(millis') = (NowElapsed >= retryEthernetPeriod)
      ]_vars

\* stateTime is the largest clock value and millis() has wrapped past 0
C13_Witness ==
    /\ stateTime = ClockMod - 1
    /\ millis < stateTime
    /\ elapsed = millis + 1
    /\ stateHandler = "stateCellularCloudConnected"

\* C14: ethernetPresent is latched once.  stateStart is run by the first
\* loop() call and by no later one, and ethernetPresent changes in no step
\* after that call.
C14_LatchedOnce ==
    [][ /\ stateHandler' = "stateStart" => (stateHandler = "stateStart" /\ ~LoopStep)
        /\ loops => (stateHandler # "stateStart" /\ UNCHANGED ethernetPresent)
        /\ ~loops => (stateHandler = "stateStart" /\ ~ethernetPresent)
        /\ ethernetPresent' # ethernetPresent
             => (LoopStep /\ stateHandler = "stateStart")
      ]_vars

\* the adapter was found by the first call and the machine has moved on
C14_Witness ==
    /\ loops
    /\ ethernetPresent
    /\ stateHandler = "stateCellularCloudConnected"

\* C15: the keep-alive follows the active interface.  In
\* stateEthernetCloudConnected the value last handed to Particle.keepAlive is
\* ethernetKeepAlive, in stateCellularCloudConnected it is cellularKeepAlive,
\* and every loop() call that enters one of the two states, also after a
\* cloud drop, calls Particle.keepAlive.
C15_KeepAliveFollowsInterface ==
    [][ /\ stateHandler' = "stateEthernetCloudConnected"
             => keepAlive' = ethernetKeepAlive'
        /\ stateHandler' = "stateCellularCloudConnected"
             => keepAlive' = cellularKeepAlive'
        /\ ( /\ stateHandler' # stateHandler
             /\ stateHandler' \in {"stateEthernetCloudConnected",
                                   "stateCellularCloudConnected"} )
             => /\ LoopStep
                /\ Len(SelectSeq(calls', LAMBDA c : c = "Particle.keepAlive")) = 1
      ]_vars

\* re-entry of the cellular session after a cloud drop (activeInterface did
\* not change, so the registered callback was not invoked), on a device that
\* has an adapter
C15_Witness ==
    /\ stateHandler = "stateCellularCloudConnected"
    /\ ethernetPresent
    /\ interfaceChangeCallback # "NULL"
    /\ calls = <<"Particle.keepAlive">>
    /\ keepAlive = cellularKeepAlive

EthernetSide ==
    {"stateWaitEthernetReady", "stateWaitEthernetCloud", "stateEthernetCloudConnected"}

\* C16: the LED theme tracks the backup mode.  The theme changes only when
\* stateTryCellular or stateTryEthernet runs: stateTryCellular installs the
\* override of the cloud-connecting, cloud-handshake and cloud-connected
\* signals with cellularBackupColor, or the default theme when the color is
\* RGB_COLOR_CYAN, and stateTryEthernet installs the default theme; so the
\* states after stateTryCellular show the former and those after
\* stateTryEthernet the default.
C16_ThemeTracksBackup ==
    [][ /\ LoopStep /\ stateHandler = "stateTryCellular"
             => ledTheme' = IF cellularBackupColor # RGB_COLOR_CYAN
                            THEN <<cellularBackupColor, cellularBackupColor,
                                   cellularBackupColor>>
                            ELSE <<>>
        /\ LoopStep /\ stateHandler = "stateTryEthernet" => ledTheme' = <<>>
        /\ ~(LoopStep /\ stateHandler \in {"stateTryCellular", "stateTryEthernet"})
             => UNCHANGED ledTheme
        /\ stateHandler' \in CellularSide \ {"stateTryCellular"}
             => ledTheme' = IF cellularBackupColor' # RGB_COLOR_CYAN
                            THEN <<cellularBackupColor', cellularBackupColor',
                                   cellularBackupColor'>>
                            ELSE <<>>
        /\ stateHandler' \in EthernetSide \cup {"stateStart", "stateTryCellular"}
             => ledTheme' = <<>>
      ]_vars

\* the override is in place while connected over cellular
C16_Witness ==
    /\ stateHandler = "stateCellularCloudConnected"
    /\ ledTheme = <<RGB_COLOR_YELLOW, RGB_COLOR_YELLOW, RGB_COLOR_YELLOW>>

\* the state changes one handler can make (from, to)
HandlerTransitions ==
    { <<"stateStart", "stateTryEthernet">>, <<"stateStart", "stateTryCellular">>,
      <<"stateTryEthernet", "stateWaitEthernetReady">>,
      <<"stateWaitEthernetReady", "stateWaitEthernetCloud">>,
      <<"stateWaitEthernetReady", "stateTryCellular">>,
      <<"stateWaitEthernetCloud", "stateEthernetCloudConnected">>,
      <<"stateWaitEthernetCloud", "stateTryCellular">>,
      <<"stateEthernetCloudConnected", "stateWaitEthernetCloud">>,
      <<"stateTryCellular", "stateWaitCellularReady">>,
      <<"stateWaitCellularReady", "stateWaitCellularCloud">>,
      <<"stateWaitCellularReady", "stateTryEthernet">>,
      <<"stateWaitCellularCloud", "stateCellularCloudConnected">>,
      <<"stateWaitCellularCloud", "stateTryEthernet">>,
      <<"stateCellularCloudConnected", "stateWaitCellularCloud">>,
      <<"stateCellularCloudConnected",
        "stateCellularWaitDisconnectedThenTryEthernet">>,
      <<"stateCellularWaitDisconnectedThenTryEthernet", "stateTryEthernet">> }

\* C17: each loop() call runs exactly one handler.  In every reachable state,
\* for every link status, cloud status and clock value, the call can be made
\* and it ends in one of the ten states, having stayed or moved along one
\* transition of one handler; a call that runs a Try handler ends in the
\* matching Wait...Ready state even when the link is already ready, without
\* issuing Particle.connect.
C17_OneHandlerPerCall ==
    /\ [](\A d \in 0..MaxTick : ENABLED loopAt(d))
    /\ [][ LoopStep =>
           /\ stateHandler' \in StateHandlers
           /\ \/ stateHandler' = stateHandler
              \/ <<stateHandler, stateHandler'>> \in HandlerTransitions
           /\ stateHandler = "stateTryEthernet"
                => /\ stateHandler' = "stateWaitEthernetReady"
                   /\ \A i \in 1..Len(calls') : calls'[i] # "Particle.connect"
                   /\ UNCHANGED cloudCmd
           /\ stateHandler = "stateTryCellular"
                => /\ stateHandler' = "stateWaitCellularReady"
                   /\ \A i \in 1..Len(calls') : calls'[i] # "Particle.connect"
                   /\ UNCHANGED cloudCmd
         ]_vars

\* stateTryEthernet has just run while the link was already up
C17_Witness ==
    /\ stateHandler = "stateWaitEthernetReady"
    /\ ethernetReady
    /\ inState = 0
    /\ Len(calls) > 0 /\ calls[Len(calls)] = "Ethernet.connect"
    /\ cloudCmd = "none"

\* C18: recovery on the sole interface.  On a device without an Ethernet
\* adapter that keeps being polled, if from some point on every loop() call
\* finds the cellular link ready and the cloud connected, then from some
\* point on the controller is in stateCellularCloudConnected with
\* activeInterface CELLULAR for good.
C18_SoleInterfaceRecovery ==
    ( /\ <>(loops /\ ~ethernetPresent)
      /\ <>[][LoopStep => (cellularReady /\ cloud = "connected")]_vars )
    => <>[](/\ stateHandler = "stateCellularCloudConnected"
            /\ activeInterface = "CELLULAR")

\* connected over cellular, without an adapter, for as long as is tracked
C18_Witness ==
    /\ ~ethernetPresent
    /\ stateHandler = "stateCellularCloudConnected"
    /\ activeInterface = "CELLULAR"
    /\ cellularReady /\ cloud = "connected"
    /\ inState = MaxElapsed

\* in the specifications with setter calls: a step made by loop(), and the
\* interface the handler run by that call hands to setActiveInterface
\* (the current one if it does not call it)
LoopCall == env' = env /\ returned' = "void"

InterfaceSetByHandler ==
    CASE stateHandler \in {"stateTryEthernet", "stateTryCellular"} -> "NONE"
      [] stateHandler = "stateWaitEthernetCloud" /\ cloud = "connected" -> "ETHERNET"
      [] stateHandler = "stateWaitCellularCloud" /\ cloud = "connected" -> "CELLULAR"
      [] /\ stateHandler = "stateCellularCloudConnected" /\ cloud = "connected"
         /\ ethernetPresent /\ Since(millis') >= retryEthernetPeriod -> "NONE"
      [] OTHER -> activeInterface

\* C19: the callback slot holds one callback.  withInterfaceChangeCallback
\* stores its argument in place of whatever was registered and invokes
\* nothing; a loop() call that changes activeInterface invokes the callback
\* registered at that time exactly once, with the old and the new value,
\* and no other callback; with NULL registered it invokes nothing.  The
\* call can always be made, and the interface and the state it leaves do
\* not depend on the callback.
C19_OneCallbackSlot ==
    /\ [](\A d \in 0..MaxTick : ENABLED loopAt(d))
    /\ [][ /\ \A cb \in InterfaceChangeCallbackArgs :
                withInterfaceChangeCallback(cb)
                  => /\ interfaceChangeCallback' = cb
                     /\ UNCHANGED <<notified, calls, activeInterface, stateHandler>>
           /\ LoopCall =>
                /\ UNCHANGED interfaceChangeCallback
                /\ activeInterface' = InterfaceSetByHandler
                /\ \/ stateHandler' = stateHandler
                   \/ <<stateHandler, stateHandler'>> \in HandlerTransitions
                /\ Len(notified') = IF /\ activeInterface' # activeInterface
                                       /\ interfaceChangeCallback # "NULL"
                                    THEN 1 ELSE 0
                /\ Len(SelectSeq(calls', LAMBDA c : c = "callback")) = Len(notified')
                /\ \A i \in 1..Len(notified') :
                     /\ notified'[i].cb = interfaceChangeCallback
                     /\ notified'[i].oldInterface = activeInterface
                     /\ notified'[i].newInterface = activeInterface'
         ]_vars

\* callback B, registered by a setter call, has been told of a change away
\* from Ethernet
C19_Witness ==
    /\ interfaceChangeCallback = "B"
    /\ Len(notified) = 1
    /\ notified[1].cb = "B"
    /\ notified[1].oldInterface = "ETHERNET"
    /\ activeInterface = "NONE"

\* what no setter of a configuration member may change
MachineUnchanged ==
    UNCHANGED <<stateHandler, activeInterface, ethernetPresent, stateTime>>

\* C20: configuration round trip.  Each of the eight setters can be called
\* in every state; called with a value in the range of int (any value for
\* the color) it makes the member's getter return that value; it returns
\* the object itself and changes no other configuration member, nor
\* stateHandler, activeInterface, ethernetPresent or stateTime.
C20_ConfigRoundTrip ==
    /\ [](/\ \A value \in EthernetKeepAliveArgs : ENABLED withEthernetKeepAlive(value)
          /\ \A value \in CellularKeepAliveArgs : ENABLED withCellularKeepAlive(value)
          /\ \A value \in RetryEthernetPeriodArgs : ENABLED withRetryEthernetPeriod(value)
          /\ \A value \in CellularConnectTimeoutArgs : ENABLED withCellularConnectTimeout(value)
          /\ \A value \in CellularCloudConnectTimeoutArgs : ENABLED withCellularCloudConnectTimeout(value)
          /\ \A value \in EthernetConnectTimeoutArgs : ENABLED withEthernetConnectTimeout(value)
          /\ \A value \in EthernetCloudConnectTimeoutArgs : ENABLED withEthernetCloudConnectTimeout(value)
          /\ \A value \in CellularBackupColorArgs : ENABLED withCellularBackupColor(value))
    /\ [][ /\ \A value \in EthernetKeepAliveArgs :
                withEthernetKeepAlive(value)
                  => /\ (value \in IntMin..IntMax) => getEthernetKeepAlive' = value
                     /\ returned' = "*this"
                     /\ UNCHANGED <<cellularKeepAlive, retryEthernetPeriod, cellularConnectTimeout,
                                    cellularCloudConnectTimeout, ethernetConnectTimeout,
                                    ethernetCloudConnectTimeout, cellularBackupColor>>
                     /\ MachineUnchanged
           /\ \A value \in CellularKeepAliveArgs :
                withCellularKeepAlive(value)
                  => /\ (value \in IntMin..IntMax) => getCellularKeepAlive' = value
                     /\ returned' = "*this"
                     /\ UNCHANGED <<ethernetKeepAlive, retryEthernetPeriod, cellularConnectTimeout,
                                    cellularCloudConnectTimeout, ethernetConnectTimeout,
                                    ethernetCloudConnectTimeout, cellularBackupColor>>
                     /\ MachineUnchanged
           /\ \A value \in RetryEthernetPeriodArgs :
                withRetryEthernetPeriod(value)
                  => /\ (value \in IntMin..IntMax) => getRetryEthernetPeriod' = value
                     /\ returned' = "*this"
                     /\ UNCHANGED <<ethernetKeepAlive, cellularKeepAlive, cellularConnectTimeout,
                                    cellularCloudConnectTimeout, ethernetConnectTimeout,
                                    ethernetCloudConnectTimeout, cellularBackupColor>>
                     /\ MachineUnchanged
           /\ \A value \in CellularConnectTimeoutArgs :
                withCellularConnectTimeout(value)
                  => /\ (value \in IntMin..IntMax) => getCellularConnectTimeout' = value
                     /\ returned' = "*this"
                     /\ UNCHANGED <<ethernetKeepAlive, cellularKeepAlive, retryEthernetPeriod,
                                    cellularCloudConnectTimeout, ethernetConnectTimeout,
                                    ethernetCloudConnectTimeout, cellularBackupColor>>
                     /\ MachineUnchanged
           /\ \A value \in CellularCloudConnectTimeoutArgs :
                withCellularCloudConnectTimeout(value)
                  => /\ (value \in IntMin..IntMax) => getCellularCloudConnectTimeout' = value
                     /\ returned' = "*this"
                     /\ UNCHANGED <<ethernetKeepAlive, cellularKeepAlive, retryEthernetPeriod,
                                    cellularConnectTimeout, ethernetConnectTimeout,
                                    ethernetCloudConnectTimeout, cellularBackupColor>>
                     /\ MachineUnchanged
           /\ \A value \in EthernetConnectTimeoutArgs :
                withEthernetConnectTimeout(value)
                  => /\ (value \in IntMin..IntMax) => getEthernetConnectTimeout' = value
                     /\ returned' = "*this"
                     /\ UNCHANGED <<ethernetKeepAlive, cellularKeepAlive, retryEthernetPeriod,
                                    cellularConnectTimeout, cellularCloudConnectTimeout,
                                    ethernetCloudConnectTimeout, cellularBackupColor>>
                     /\ MachineUnchanged
           /\ \A value \in EthernetCloudConnectTimeoutArgs :
                withEthernetCloudConnectTimeout(value)
                  => /\ (value \in IntMin..IntMax) => getEthernetCloudConnectTimeout' = value
                     /\ returned' = "*this"
                     /\ UNCHANGED <<ethernetKeepAlive, cellularKeepAlive, retryEthernetPeriod,
                                    cellularConnectTimeout, cellularCloudConnectTimeout,
                                    ethernetConnectTimeout, cellularBackupColor>>
                     /\ MachineUnchanged
           /\ \A value \in CellularBackupColorArgs :
                withCellularBackupColor(value)
                  => /\ getCellularBackupColor' = value
                     /\ returned' = "*this"
                     /\ UNCHANGED <<ethernetKeepAlive, cellularKeepAlive, retryEthernetPeriod,
                                    cellularConnectTimeout, cellularCloudConnectTimeout,
                                    ethernetConnectTimeout, ethernetCloudConnectTimeout>>
                     /\ MachineUnchanged
         ]_vars

\* the largest int has been stored and read back while connected over
\* cellular, the other members being as constructed
C20_Witness ==
    /\ returned = "*this"
    /\ ethernetKeepAlive = IntMax
    /\ getEthernetKeepAlive = IntMax
    /\ getCellularKeepAlive = DefaultCellularKeepAlive
    /\ getEthernetConnectTimeout = DefaultEthernetConnectTimeout
    /\ stateHandler = "stateEthernetCloudConnected"
    /\ activeInterface = "ETHERNET"

\* C21: the initial state.  Before any member function has been called the
\* controller is in stateStart with activeInterface NONE, ethernetPresent
\* false and no callback, and the getters return 25 s and 1380 s for the
\* keep-alives, 300000, 300000, 120000, 30000 and 30000 ms for the retry
\* period and the four timeouts, and yellow for the backup color.
C21_InitialState ==
    returned = "none" =>
      /\ stateHandler = "stateStart"
      /\ getActiveInterface = "NONE"
      /\ ethernetPresent = FALSE
      /\ interfaceChangeCallback = "NULL"
      /\ getEthernetKeepAlive = 25
      /\ getCellularKeepAlive = 1380
      /\ getRetryEthernetPeriod = 300000
      /\ getCellularConnectTimeout = 300000
      /\ getCellularCloudConnectTimeout = 120000
      /\ getEthernetConnectTimeout = 30000
      /\ getEthernetCloudConnectTimeout = 30000
      /\ getCellularBackupColor = 16776960
      /\ stateTime = 0

\* the constructed object, no call made yet
C21_Witness ==
    /\ returned = "none"
    /\ ~loops
    /\ stateHandler = "stateStart"
    /\ getCellularConnectTimeout = DefaultCellularConnectTimeout
    /\ calls = <<>>

\* C22: setup() does nothing.  It can be called in every state, and a call
\* leaves stateHandler, activeInterface, ethernetPresent, stateTime and
\* every configuration member as they are and issues no command to
\* Ethernet, CellularOrWiFi, Particle or the LED theme, and invokes no
\* callback; so any number of calls has the effect of none.
C22_SetupDoesNothing ==
    /\ [](ENABLED setup)
    /\ [][ setup =>
           /\ UNCHANGED <<stateHandler, activeInterface, ethernetPresent, stateTime>>
           /\ UNCHANGED config
           /\ UNCHANGED <<calls, notified, ethernetCmd, cellularCmd, cloudCmd,
                          keepAlive, ledTheme>>
           /\ UNCHANGED <<millis, env, elapsed, inState, loops>>
         ]_vars

\* setup() has been called, and nothing else
C22_Witness ==
    /\ returned = "void"
    /\ ~loops
    /\ stateHandler = "stateStart"
    /\ calls = <<>>
    /\ cloudCmd = "none"

\* C23: the transition relation.  stateHandler changes only in loop() calls,
\* and every change is one of the sixteen transitions of the handlers:
\* stateStart moves to stateTryEthernet if the adapter was found and to
\* stateTryCellular if not, and stateTryEthernet and stateTryCellular move
\* on to their Wait...Ready state in the call that runs them.
C23_TransitionRelation ==
    [][ /\ stateHandler' # stateHandler
             => /\ LoopStep
                /\ <<stateHandler, stateHandler'>> \in HandlerTransitions
        /\ (LoopStep /\ stateHandler = "stateStart")
             => stateHandler' = IF ethernetPresent' THEN "stateTryEthernet"
                                                    ELSE "stateTryCellular"
        /\ (LoopStep /\ stateHandler = "stateTryEthernet")
             => stateHandler' = "stateWaitEthernetReady"
        /\ (LoopStep /\ stateHandler = "stateTryCellular")
             => stateHandler' = "stateWaitCellularReady"
      ]_vars

\* the call that ran stateCellularWaitDisconnectedThenTryEthernet or a
\* cellular timeout has just handed over to stateTryEthernet
C23_Witness ==
    /\ stateHandler = "stateTryEthernet"
    /\ inState = 0
    /\ loops
    /\ cellularCmd = "connect"
    /\ ledTheme # <<>>

\* C24: status takes priority over the timeout.  In the four Wait states a
\* loop() call that finds the awaited status (link ready, cloud connected)
\* takes the success transition however much time has passed, also with a
\* timeout of 0; and in stateCellularCloudConnected a call that finds the
\* cloud not connected moves to stateWaitCellularCloud without issuing
\* Particle.disconnect, also when retryEthernetPeriod has passed.
C24_StatusBeforeTimeout ==
    [][ LoopStep =>
        /\ (stateHandler = "stateWaitEthernetReady" /\ ethernetReady)
             => /\ stateHandler' = "stateWaitEthernetCloud"
                /\ calls' = <<"Particle.connect">>
        /\ (stateHandler = "stateWaitEthernetCloud" /\ cloud = "connected")
             => /\ stateHandler' = "stateEthernetCloudConnected"
                /\ UNCHANGED <<cloudCmd, ethernetCmd>>
        /\ (stateHandler = "stateWaitCellularReady" /\ cellularReady)
             => /\ stateHandler' = "stateWaitCellularCloud"
                /\ calls' = <<"Particle.connect">>
        /\ (stateHandler = "stateWaitCellularCloud" /\ cloud = "connected")
             => /\ stateHandler' = "stateCellularCloudConnected"
                /\ UNCHANGED <<cloudCmd, cellularCmd>>
        /\ (stateHandler = "stateCellularCloudConnected" /\ cloud # "connected")
             => /\ stateHandler' = "stateWaitCellularCloud"
                /\ calls' = <<>>
                /\ UNCHANGED <<cloudCmd, activeInterface>>
      ]_vars

\* the Ethernet link was found ready by a call made when the connect
\* timeout had already passed
C24_Witness ==
    /\ stateHandler = "stateWaitEthernetCloud"
    /\ inState = 0
    /\ calls = <<"Particle.connect">>
    /\ elapsed >= ethernetConnectTimeout
    /\ elapsed < ClockMod

\* C25: teardown before switching.  The loop() call in which
\* stateWaitEthernetCloud gives up issues Particle.disconnect and then
\* Ethernet.disconnect and leaves stateTryCellular; the call in which
\* stateWaitCellularCloud gives up issues Particle.disconnect and leaves
\* stateTryEthernet; neither call commands the other interface, whose latest
\* command is still disconnect, so its connect comes later; and a call in
\* which stateWaitEthernetReady or stateWaitCellularReady gives up issues no
\* command at all.
C25_TeardownBeforeSwitch ==
    [][ LoopStep =>
        /\ (stateHandler = "stateWaitEthernetCloud" /\ stateHandler' = "stateTryCellular")
             => /\ calls' = <<"Particle.disconnect", "Ethernet.disconnect">>
                /\ cloudCmd' = "disconnect"
                /\ ethernetCmd' = "disconnect"
                /\ cellularCmd' = "disconnect"
        /\ (stateHandler = "stateWaitCellularCloud" /\ stateHandler' = "stateTryEthernet")
             => /\ ethernetPresent
                /\ calls' = <<"Particle.disconnect">>
                /\ cloudCmd' = "disconnect"
                /\ ethernetCmd' = "disconnect"
        /\ ( \/ stateHandler = "stateWaitEthernetReady" /\ stateHandler' = "stateTryCellular"
             \/ stateHandler = "stateWaitCellularReady" /\ stateHandler' = "stateTryEthernet" )
             => /\ calls' = <<>>
                /\ UNCHANGED <<cloudCmd, ethernetCmd, cellularCmd>>
        /\ stateHandler \in {"stateTryEthernet", "stateTryCellular"}
             => \A i \in 1..Len(calls') : calls'[i] # "Particle.disconnect"
      ]_vars

\* stateWaitEthernetCloud has just given up
C25_Witness ==
    /\ stateHandler = "stateTryCellular"
    /\ inState = 0
    /\ calls = <<"Particle.disconnect", "Ethernet.disconnect">>
    /\ cloudCmd = "disconnect"
    /\ cellularCmd = "disconnect"

\* C26: stateEthernetCloudConnected has no timeout.  A loop() call made in
\* that state while the cloud is connected stays there and does nothing,
\* whatever time has passed and whether or not the Ethernet link is ready;
\* the state is left only by a loop() call that finds the cloud not
\* connected, and then for stateWaitEthernetCloud.
C26_EthernetSteadyState ==
    [][ stateHandler = "stateEthernetCloudConnected" =>
        /\ (LoopStep /\ cloud = "connected")
             => /\ stateHandler' = "stateEthernetCloudConnected"
                /\ calls' = <<>>
                /\ notified' = <<>>
                /\ UNCHANGED <<activeInterface, stateTime, ethernetCmd, cellularCmd,
                               cloudCmd, keepAlive, ledTheme>>
        /\ stateHandler' # stateHandler
             => /\ LoopStep
                /\ cloud # "connected"
                /\ stateHandler' = "stateWaitEthernetCloud"
      ]_vars

\* still connected over Ethernet after the longest tracked time, with the
\* Ethernet link reported down
C26_Witness ==
    /\ stateHandler = "stateEthernetCloudConnected"
    /\ inState = MaxElapsed
    /\ ~ethernetReady
    /\ cloud = "connected"
    /\ calls = <<>>

\* C27 (as stated): on cloud-connected confirmation the keep-alive of the
\* new interface is applied before activeInterface is changed: when the
\* callback is invoked with (NONE, ETHERNET) the latest value given to
\* Particle.keepAlive is ethernetKeepAlive, and when it is invoked with
\* (NONE, CELLULAR) it is cellularKeepAlive.
C27_Original ==
    \A i \in 1..Len(notified) :
      /\ (notified[i].oldInterface = "NONE" /\ notified[i].newInterface = "ETHERNET")
           => /\ notified[i].seenKeepAlive = ethernetKeepAlive
              /\ Precedes(calls, "Particle.keepAlive", "callback")
      /\ (notified[i].oldInterface = "NONE" /\ notified[i].newInterface = "CELLULAR")
           => /\ notified[i].seenKeepAlive = cellularKeepAlive
              /\ Precedes(calls, "Particle.keepAlive", "callback")

\* C28: activeInterface never changes directly between ETHERNET and
\* CELLULAR.  Every change is made by a loop() call and goes from NONE to an
\* interface or from an interface to NONE, and so does every pair of values
\* the callback is invoked with.
C28_ChangesThroughNone ==
    [][ /\ activeInterface' # activeInterface
             => /\ LoopStep
                /\ (activeInterface = "NONE" \/ activeInterface' = "NONE")
        /\ \A i \in 1..Len(notified') :
             /\ notified'[i].oldInterface # notified'[i].newInterface
             /\ \/ notified'[i].oldInterface = "NONE"
                \/ notified'[i].newInterface = "NONE"
      ]_vars

\* stateTryEthernet has reset the interface left over from a cellular
\* session that dropped, and told the callback
C28_Witness ==
    /\ stateHandler = "stateWaitEthernetReady"
    /\ activeInterface = "NONE"
    /\ Len(notified) = 1
    /\ notified[1].oldInterface = "CELLULAR"
    /\ notified[1].newInterface = "NONE"

\* C29 (as stated): whenever getActiveInterface() reports ETHERNET the latest
\* command to Ethernet is connect, and whenever it reports CELLULAR the
\* latest command to CellularOrWiFi is connect.
C29_Original ==
    /\ getActiveInterface = "ETHERNET" => ethernetCmd = "connect"
    /\ getActiveInterface = "CELLULAR" => cellularCmd = "connect"

\* C29 (amended): whenever getActiveInterface() reports CELLULAR the latest
\* command to CellularOrWiFi is connect; whenever it reports ETHERNET the
\* latest command to Ethernet is connect, except in stateTryCellular before
\* that handler has run: stateWaitEthernetCloud gave up after a cloud drop,
\* Ethernet and the cloud session have been told to disconnect and
\* activeInterface is still ETHERNET.
C29_CommandedInterface ==
    /\ getActiveInterface = "CELLULAR" => cellularCmd = "connect"
    /\ (getActiveInterface = "ETHERNET" /\ stateHandler # "stateTryCellular")
         => ethernetCmd = "connect"
    /\ (getActiveInterface = "ETHERNET" /\ stateHandler = "stateTryCellular")
         => /\ ethernetCmd = "disconnect"
            /\ cloudCmd = "disconnect"
            /\ calls = <<"Particle.disconnect", "Ethernet.disconnect">>

\* connected over cellular while Ethernet is commanded off
C29_Witness ==
    /\ getActiveInterface = "CELLULAR"
    /\ cellularCmd = "connect"
    /\ ethernetCmd = "disconnect"
    /\ stateHandler = "stateWaitCellularCloud"

\* C30: no interface switch with a cloud connect request outstanding.
\* Whenever stateHandler is stateTryEthernet or stateTryCellular, the latest
\* command the controller has given to Particle is disconnect, or it has
\* given none yet.
C30_NoConnectOutstanding ==
    stateHandler \in {"stateTryEthernet", "stateTryCellular"}
      => cloudCmd \in {"none", "disconnect"}

\* stateWaitCellularCloud has given up and closed the session it had asked for
C30_Witness ==
    /\ stateHandler = "stateTryEthernet"
    /\ cloudCmd = "disconnect"
    /\ calls = <<"Particle.disconnect">>
    /\ cellularCmd = "connect"

\* C31: no cloud-session churn without an adapter.  Once stateStart has
\* found no adapter, the controller never issues Particle.disconnect and
\* never issues Ethernet.connect, activeInterface is never ETHERNET and
\* stateCellularWaitDisconnectedThenTryEthernet is never reached.
C31_NoChurnWithoutAdapter ==
    (loops /\ ~ethernetPresent) =>
      /\ cloudCmd # "disconnect"
      /\ ethernetCmd # "connect"
      /\ \A i \in 1..Len(calls) :
           calls[i] \notin {"Particle.disconnect", "Ethernet.connect"}
      /\ activeInterface # "ETHERNET"
      /\ \A i \in 1..Len(notified) : notified[i].newInterface # "ETHERNET"
      /\ stateHandler # "stateCellularWaitDisconnectedThenTryEthernet"

\* no adapter: the cloud session asked for over cellular is still awaited
\* after cellularCloudConnectTimeout has passed
C31_Witness ==
    /\ loops /\ ~ethernetPresent
    /\ stateHandler = "stateWaitCellularCloud"
    /\ cloudCmd = "connect"
    /\ inState > 0
    /\ elapsed >= cellularCloudConnectTimeout
    /\ cloud # "connected"

\* C32: a loop() call that leaves stateHandler as it is has no effect.  It
\* issues no command to Ethernet, CellularOrWiFi, Particle (keep-alive
\* included) or the LED theme, invokes no callback, and leaves
\* activeInterface, ethernetPresent and stateTime unchanged; so waiting past
\* a timeout without an adapter issues no further Cellular.connect.
C32_NoEffectWithoutTransition ==
    [][ (LoopStep /\ stateHandler' = stateHandler) =>
        /\ calls' = <<>>
        /\ notified' = <<>>
        /\ UNCHANGED <<ethernetCmd, cellularCmd, cloudCmd, keepAlive, ledTheme>>
        /\ UNCHANGED <<activeInterface, ethernetPresent, stateTime>>
        /\ UNCHANGED <<config, featureEthernetDetection>>
      ]_vars

\* no adapter: a call made past cellularConnectTimeout with the link still
\* down has changed nothing
C32_Witness ==
    /\ loops /\ ~ethernetPresent
    /\ stateHandler = "stateWaitCellularReady"
    /\ ~cellularReady
    /\ inState > cellularConnectTimeout
    /\ inState < ClockMod
    /\ calls = <<>>
    /\ cellularCmd = "connect"

\* C33: the retryEthernetPeriod window restarts on every entry into
\* stateCellularCloudConnected.  Each loop() call in which
\* stateWaitCellularCloud finds the cloud connected, the first one and every
\* one after a cloud drop, sets stateTime to the clock of that call; so in
\* stateCellularCloudConnected millis() - stateTime is the time since the
\* latest confirmation, and with an adapter present and the cloud connected
\* the controller turns back to Ethernet exactly in the first call made
\* retryEthernetPeriod or more after that confirmation.
C33_RetryWindowRestarts ==
    [][ LoopStep =>
        /\ (stateHandler = "stateWaitCellularCloud" /\ cloud = "connected")
             => /\ stateHandler' = "stateCellularCloudConnected"
                /\ stateTime' = millis'
                /\ elapsed' = 0
        /\ (stateHandler = "stateCellularCloudConnected" /\ NowInState < ClockMod)
             => /\ Since(millis') = NowInState
                /\ (cloud = "connected" /\ ethernetPresent)
                     => ( stateHandler' = "stateCellularWaitDisconnectedThenTryEthernet"
                            <=> NowInState >= retryEthernetPeriod )
      ]_vars

\* the cloud was confirmed again after a drop (activeInterface did not
\* change, so the callback was not invoked): the window has just restarted
\* although more than retryEthernetPeriod has passed on cellular
C33_Witness ==
    /\ stateHandler = "stateCellularCloudConnected"
    /\ ethernetPresent
    /\ interfaceChangeCallback # "NULL"
    /\ calls = <<"Particle.keepAlive">>
    /\ inState = 0 /\ elapsed = 0
    /\ retryEthernetPeriod > 0
    /\ cloud = "connected"

====
